---------------------------- MODULE Spec2Model ----------------------------
(***************************************************************************)
(* Lecture notebooks of Principles-of-Machine-Learning, as state machines: *)
(*   - DSA5102_statistical_learning.ipynb: the coin model, flip_coin,      *)
(*     indicator, algorithm_p_hat and the hypothesis f_hat (SpecCoin);     *)
(*   - DSA5102_RL_modelfree.ipynb: choose_action and update_Q as           *)
(*     functions of an arbitrary table (SpecUpdate) and the training loop  *)
(*     from the all-zero table (Spec);                                     *)
(*   - DSA5102_decision_trees.ipynb: policy_evaluation,                    *)
(*     policy_improvement and policy_iteration (SpecPI).                   *)
(* Real numbers are exact: the coin's draws are grid points k/GridN kept   *)
(* as the integer k (only comparisons are made on them), action values are *)
(* normalised fractions <<numerator, denominator>>.                        *)
(***************************************************************************)
EXTENDS Integers, Sequences, FiniteSets, TLC

VARIABLES
    pc,              \* position of the running notebook cell
    \* ---- DSA5102_statistical_learning.ipynb
    p_star,          \* the generating threshold, in grid units
    x_train,         \* the draws x_1..x_N, in grid units
    y_train,         \* the labels y_1..y_N
    p_hat,           \* algorithm_p_hat(x_train, y_train)
    f_hat_train,     \* f_hat(x_train) = indicator(x_train, p_hat)
    \* ---- DSA5102_RL_modelfree.ipynb
    Q,               \* the action-value table, Q[bin][action]
    state,           \* the current parsed state (a bin)
    game_over,       \* ple_env.game_over()
    game_score,      \* ple_env.score(), the game's own episode score
    cumulative_reward,
    scores,
    returns,
    n_updates,       \* update_Q calls made so far
    epoch,           \* passes of: for _ in range(n_epochs), begun so far
    reward_log,      \* history: <<epoch, reward>> of every pass of the while
    Q_before,        \* history: the table as the last call received it
    call,            \* history: the arguments of the last call
    chosen,          \* history: what the last choose_action call returned
    updated,         \* history: the (bin, action) entries update_Q has written
    \* ---- DSA5102_decision_trees.ipynb, policy iteration
    envP,            \* env.P, the transition table
    max_iter,        \* the argument of policy_iteration
    policy,
    policy_prev,
    value_function,  \* policy_iteration's value_function (<<>>: not yet bound)
    iter_i,          \* policy_iteration's i: rounds of its loop completed
    eval_value,      \* value_function inside policy_evaluation
    sweep_k,         \* sweeps of policy_evaluation's loop completed
    sweeps_total,    \* history: sweeps made by all evaluations so far
    value_last,      \* history: the value function of the round before
    \* ---- DSA5102_decision_trees.ipynb, one call of policy_evaluation or
    \*      policy_improvement on arrays held by reference
    heap,            \* the arrays that exist, by address 1..Len(heap)
    frame,           \* the arguments and locals of the running function
    heap_at_call,    \* history: the arrays as the call received them
    \* ---- DSA5102_PCA.ipynb, the recommender
    latents,         \* latents[item][component], the PCA scores
    bought_id,
    num_recommendation,
    distances,       \* recommend's distances (<<>>: not yet computed)
    rec_ids,         \* recommend's rec_ids
    \* ---- DSA5102_statistical_learning.ipynb, sample_p_hats
    num_trials,      \* the arguments of sample_p_hats
    num_flips,
    p_hats,          \* sample_p_hats' list p_hats
    \* ---- DSA5102_RL_modelfree.ipynb, the parsers called on their own
    raw_game_state,  \* game_env.getGameState()
    raw_game_reward, \* what ple_env.act returned
    parsed_state,    \* parse_state(raw_game_state) (<<>>: not yet called)
    parsed_reward,   \* parse_reward(raw_game_reward) (<<>>: not yet called)
    \* ---- DSA5102_statistical_learning.ipynb, inds and its consistent subset
    num_h,           \* inds.num_h (0: not yet constructed)
    mean,            \* inds.mean[j], in grid units
    cov_inv,         \* inds.cov_inv[j], a symmetric matrix <<a, b, c>>
    j_star,          \* inds.j_star, the index of the oracle
    check_results,   \* check_results[j + 1] for j in range(inds.num_h)
    consistent_subset,
    drawn_j          \* j = np.random.choice(consistent_subset)

coinVars == <<p_star, x_train, y_train, p_hat, f_hat_train>>

trainVars == <<state, game_over, game_score, cumulative_reward, scores,
               returns, n_updates, updated, epoch, reward_log>>

qVars == <<Q, Q_before, call, chosen, trainVars>>

piVars == <<envP, max_iter, policy, policy_prev, value_function, iter_i,
            eval_value, sweep_k, sweeps_total, value_last>>

heapVars == <<heap, frame, heap_at_call>>

recVars == <<latents, bought_id, num_recommendation, distances, rec_ids>>

trialVars == <<num_trials, num_flips, p_hats>>

parseVars == <<raw_game_state, raw_game_reward, parsed_state, parsed_reward>>

rbfVars == <<num_h, mean, cov_inv, j_star, check_results, consistent_subset,
            drawn_j>>

fnVars == <<heapVars, recVars, trialVars, parseVars, rbfVars>>

vars == <<pc, coinVars, qVars, piVars, fnVars>>

(***************************************************************************)
(* Bounds of the model.                                                    *)
(***************************************************************************)
\* draws and thresholds are the grid points 0/GridN .. GridN/GridN
GridN == 3
\* largest sample size N
MaxN == 3
\* number of distinct pipe distances the game reports
NDist == 2
\* update_Q calls followed in the training loop
MaxUpdates == 2
\* env.nS and env.nA of the environments policy iteration is run on
nS == 2
nA == 2
\* largest max_iter passed to policy_iteration
MaxRounds == 2
\* largest max_iter passed to policy_evaluation when it is called on its own
MaxSweeps == 2
\* items in the recommender's catalogue
NItems == 3
\* largest num_trials passed to sample_p_hats
MaxTrials == 2

(***************************************************************************)
(* DSA5102_statistical_learning.ipynb                                      *)
(***************************************************************************)
\* np.random.uniform draws from the half-open interval [0, 1)
UniformDraws == 0 .. (GridN - 1)

\* p_star ranges over [0, 1]
Thresholds == 0 .. GridN

Datasets == UNION {[1 .. n -> UniformDraws] : n \in 1 .. MaxN}

\* indicator on one element: np.where(x < p, 1, 0)
indicator1(xi, p) == IF xi < p THEN 1 ELSE 0

\* indicator(x, p), elementwise over the array x
indicator(xs, p) == [i \in DOMAIN xs |-> indicator1(xs[i], p)]

\* np.max of a non-empty set of grid points
SetMax(S) == CHOOSE m \in S : \A e \in S : e <= m

\* x[y_heads] with y_heads = (y == 1.0)
Heads(xs, ys) == {xs[i] : i \in {j \in DOMAIN xs : ys[j] = 1}}

\* a slip: np.max(x) taken over all draws instead of x[y_heads]
algorithm_p_hat_unmasked(xs, ys) ==
    IF \A i \in DOMAIN ys : ~(ys[i] = 1)
    THEN 0
    ELSE SetMax({xs[i] : i \in DOMAIN xs})

\* a slip: np.min instead of np.max
algorithm_p_hat_min(xs, ys) ==
    IF \A i \in DOMAIN ys : ~(ys[i] = 1)
    THEN 0
    ELSE CHOOSE m \in Heads(xs, ys) : \A e \in Heads(xs, ys) : m <= e

\* algorithm_p_hat(x, y)
algorithm_p_hat(xs, ys) ==
    IF \A i \in DOMAIN ys : ~(ys[i] = 1)
    THEN 0
    ELSE SetMax(Heads(xs, ys))

\* the cells of the other notebooks have not run
IdleQ ==
    /\ Q = <<>>
    /\ Q_before = <<>>
    /\ call = <<>>
    /\ chosen = -1
    /\ state = <<>>
    /\ game_over = FALSE
    /\ game_score = 0
    /\ cumulative_reward = <<0, 1>>
    /\ scores = <<>>
    /\ returns = <<>>
    /\ n_updates = 0
    /\ updated = {}
    /\ epoch = 0
    /\ reward_log = <<>>

IdlePI ==
    /\ envP = <<>>
    /\ max_iter = 0
    /\ policy = <<>>
    /\ policy_prev = <<>>
    /\ value_function = <<>>
    /\ iter_i = 0
    /\ eval_value = <<>>
    /\ sweep_k = 0
    /\ sweeps_total = 0
    /\ value_last = <<>>

IdleHeap ==
    /\ heap = <<>>
    /\ frame = <<>>
    /\ heap_at_call = <<>>

IdleRec ==
    /\ latents = <<>>
    /\ bought_id = 0
    /\ num_recommendation = 0
    /\ distances = <<>>
    /\ rec_ids = <<>>

IdleTrials ==
    /\ num_trials = 0
    /\ num_flips = 0
    /\ p_hats = <<>>

IdleParse ==
    /\ raw_game_state = <<>>
    /\ raw_game_reward = 0
    /\ parsed_state = <<>>
    /\ parsed_reward = <<>>

IdleRBF ==
    /\ num_h = 0
    /\ mean = <<>>
    /\ cov_inv = <<>>
    /\ j_star = -1
    /\ check_results = <<>>
    /\ consistent_subset = <<>>
    /\ drawn_j = -1

IdleFn == IdleHeap /\ IdleRec /\ IdleTrials /\ IdleParse /\ IdleRBF

InitCoin ==
    /\ IdleFn
    /\ IdleQ
    /\ IdlePI
    /\ pc = "flip"
    /\ p_star \in Thresholds
    /\ x_train \in Datasets
    /\ y_train = <<>>
    /\ p_hat = 0
    /\ f_hat_train = <<>>

\* x_train, y_train = flip_coin(num_flips=N, p=p_star)
flip_coin ==
    /\ pc = "flip"
    /\ y_train' = indicator(x_train, p_star)
    /\ pc' = "fit"
    /\ UNCHANGED <<p_star, x_train, p_hat, f_hat_train>>
    /\ UNCHANGED <<qVars, piVars, fnVars>>

\* p_hat = algorithm_p_hat(x_train, y_train)
fit_p_hat ==
    /\ pc = "fit"
    /\ p_hat' = algorithm_p_hat(x_train, y_train)
    /\ pc' = "predict"
    /\ UNCHANGED <<p_star, x_train, y_train, f_hat_train>>
    /\ UNCHANGED <<qVars, piVars, fnVars>>

\* f_hat = lambda x: indicator(x, p_hat), applied to the training points
apply_f_hat ==
    /\ pc = "predict"
    /\ f_hat_train' = indicator(x_train, p_hat)
    /\ pc' = "fitted"
    /\ UNCHANGED <<p_star, x_train, y_train, p_hat>>
    /\ UNCHANGED <<qVars, piVars, fnVars>>

NextCoin ==
    \/ flip_coin
    \/ fit_p_hat
    \/ apply_f_hat

SpecCoin == InitCoin /\ [][NextCoin]_vars

(***************************************************************************)
(* Properties of the coin model.                                           *)
(***************************************************************************)
Fitted == pc \in {"predict", "fitted"}

SomeHead == \E i \in DOMAIN y_train : y_train[i] = 1

SomeTail == \E i \in DOMAIN y_train : y_train[i] = 0

\* C1: the hypothesis f_hat = indicator(., p_hat) predicts y_i on every
\* training point x_i, i.e. its empirical risk is 0.
C1_EmpiricalRiskZero ==
    pc = "fitted" =>
        \A i \in DOMAIN x_train : f_hat_train[i] = y_train[i]

\* C2: the value returned by algorithm_p_hat on a dataset labelled by
\* indicator(., p_star) never exceeds p_star.
C2_PHatAtMostPStar == Fitted => p_hat <= p_star

\* C2 witness: a fitted dataset with heads and tails and a positive p_hat.
C2_Witness == Fitted /\ SomeHead /\ SomeTail /\ p_hat > 0

\* C3 as stated: p_hat is the largest positively labelled draw when a label
\* is 1, and the value 0 is returned exactly when no label is 1.
C3_SentinelExactlyWhenNoHead ==
    Fitted =>
        /\ SomeHead =>
              /\ p_hat \in Heads(x_train, y_train)
              /\ \A h \in Heads(x_train, y_train) : h <= p_hat
        /\ (p_hat = 0) <=> ~SomeHead
        /\ p_hat = 0 \/ p_hat \in Heads(x_train, y_train)

\* C3 amended: p_hat is the largest positively labelled draw when a label is
\* 1, and 0 when no label is 1 (0 is also the result when the largest
\* positively labelled draw is 0.0); p_hat is 0 or a positively labelled draw.
C3_MaxOfHeadsOrSentinel ==
    Fitted =>
        /\ SomeHead =>
              /\ p_hat \in Heads(x_train, y_train)
              /\ \A h \in Heads(x_train, y_train) : h <= p_hat
        /\ ~SomeHead => p_hat = 0
        /\ p_hat = 0 \/ p_hat \in Heads(x_train, y_train)

\* C3 witness: several distinct positively labelled draws, the largest one
\* returned.
C3_Witness ==
    /\ Fitted
    /\ Cardinality(Heads(x_train, y_train)) >= 2
    /\ p_hat = SetMax(Heads(x_train, y_train))

(***************************************************************************)
(* Exact arithmetic on fractions <<n, d>>, d > 0, in lowest terms, for the *)
(* floating-point values of the action-value table.                        *)
(***************************************************************************)
Abs(n) == IF n < 0 THEN -n ELSE n

RECURSIVE Gcd(_, _)
Gcd(a, b) == IF b = 0 THEN a ELSE Gcd(b, a % b)

Lcm(a, b) == (a \div Gcd(a, b)) * b

Rat(n, d) == LET g == Gcd(Abs(n), d) IN <<n \div g, d \div g>>

Zero == <<0, 1>>

One == <<1, 1>>

RAdd(a, b) ==
    LET l == Lcm(a[2], b[2])
    IN  Rat(a[1] * (l \div a[2]) + b[1] * (l \div b[2]), l)

RSub(a, b) == RAdd(a, <<-b[1], b[2]>>)

RMul(a, b) ==
    LET g1 == Gcd(Abs(a[1]), b[2])
        g2 == Gcd(Abs(b[1]), a[2])
    IN  Rat((a[1] \div g1) * (b[1] \div g2), (a[2] \div g2) * (b[2] \div g1))

RDiv(a, b) == RMul(a, IF b[1] < 0 THEN <<-b[2], -b[1]>> ELSE <<b[2], b[1]>>)

RLess(a, b) ==
    LET l == Lcm(a[2], b[2])
    IN  a[1] * (l \div a[2]) < b[1] * (l \div b[2])

RLeq(a, b) == ~RLess(b, a)

RMax(a, b) == IF RLess(a, b) THEN b ELSE a

RMin(a, b) == IF RLess(a, b) THEN a ELSE b

(***************************************************************************)
(* DSA5102_RL_modelfree.ipynb                                              *)
(***************************************************************************)
bin_size == 10

n_epochs == 1000

alpha == <<1, 10>>

gamma == <<99, 100>>

\* the raw states getGameState() reports: the state printed in the notebook,
\* with the pipe at NDist different distances
PipeDists == {309 - 150 * k : k \in 0 .. (NDist - 1)}

GameStates ==
    [next_pipe_dist_to_player : PipeDists,
     player_y : {256},
     next_pipe_top_y : {53},
     next_pipe_bottom_y : {153}]

\* what ple_env.act returns: -5 when the game is lost, +1 for a pipe passed,
\* 0 otherwise
GameRewards == {-5, 0, 1}

\* 0: flap (key 119), 1: do nothing
Actions == {0, 1}

\* a slip: the height differences binned without the shift by 512
parse_state_unshifted(g) ==
    <<g.next_pipe_dist_to_player \div bin_size,
      (g.next_pipe_top_y - g.player_y) \div bin_size,
      (g.next_pipe_bottom_y - g.player_y) \div bin_size>>

\* parse_state(game_state)
parse_state(g) ==
    <<g.next_pipe_dist_to_player \div bin_size,
      (g.next_pipe_top_y - g.player_y + 512) \div bin_size,
      (g.next_pipe_bottom_y - g.player_y + 512) \div bin_size>>

\* the rows of Q that the game's states index
Bins == {parse_state(g) : g \in GameStates}

\* a slip: > in place of >=
parse_reward_positive(game_reward) ==
    IF game_reward > 0 THEN One ELSE <<-100, 1>>

\* parse_reward(game_reward)
parse_reward(game_reward) == IF game_reward >= 0 THEN One ELSE <<-100, 1>>

\* a slip: the row unpacked in the other order
choose_action_swapped(s, Qt) ==
    LET q_nothing == Qt[s][0]
        q_up == Qt[s][1]
    IN  IF RLess(q_nothing, q_up) THEN 0 ELSE 1

\* a slip: >= in place of >, so that a tie gives 0 (flap)
choose_action_ties_up(s, Qt) ==
    LET q_up == Qt[s][0]
        q_nothing == Qt[s][1]
    IN  IF RLeq(q_nothing, q_up) THEN 0 ELSE 1

\* choose_action(state, Q)
choose_action(s, Qt) ==
    LET q_up == Qt[s][0]
        q_nothing == Qt[s][1]
    IN  IF RLess(q_nothing, q_up) THEN 0 ELSE 1

\* np.max(Q[tuple(next_state)])
RowMax(row) == RMax(row[0], row[1])

\* a slip: the old value is not scaled by (1 - alpha)
update_Q_no_decay(Qt, s, ns, a, reward, al, ga) ==
    LET Q_new == RAdd(reward, RMul(ga, RowMax(Qt[ns])))
        Q_old == Qt[s][a]
    IN  [Qt EXCEPT ![s][a] = RAdd(Q_old, RMul(al, Q_new))]

\* a slip: np.sum instead of np.max over the next state's row
update_Q_row_sum(Qt, s, ns, a, reward, al, ga) ==
    LET Q_new == RAdd(reward, RMul(ga, RAdd(Qt[ns][0], Qt[ns][1])))
        Q_old == Qt[s][a]
    IN  [Qt EXCEPT ![s][a] = RAdd(RMul(RSub(One, al), Q_old), RMul(al, Q_new))]

\* a slip: the assignment made to Q[tuple(state)], which numpy broadcasts
\* over both actions
update_Q_whole_row(Qt, s, ns, a, reward, al, ga) ==
    LET Q_new == RAdd(reward, RMul(ga, RowMax(Qt[ns])))
        Q_old == Qt[s][a]
    IN  [Qt EXCEPT ![s] = [b \in Actions |->
            RAdd(RMul(RSub(One, al), Q_old), RMul(al, Q_new))]]

\* a slip: the bootstrap taken from the row of state, not of next_state
update_Q_own_row(Qt, s, ns, a, reward, al, ga) ==
    LET Q_new == RAdd(reward, RMul(ga, RowMax(Qt[s])))
        Q_old == Qt[s][a]
    IN  [Qt EXCEPT ![s][a] = RAdd(RMul(RSub(One, al), Q_old), RMul(al, Q_new))]

\* update_Q(Q, state, next_state, action, reward, alpha, gamma): the table
\* after the call
update_Q(Qt, s, ns, a, reward, al, ga) ==
    LET Q_new == RAdd(reward, RMul(ga, RowMax(Qt[ns])))
        Q_old == Qt[s][a]
    IN  [Qt EXCEPT ![s][a] = RAdd(RMul(RSub(One, al), Q_old), RMul(al, Q_new))]

\* Q = np.zeros((n_bins_dist, n_bins_top, n_bins_bot, 2))
ZeroTable == [b \in Bins |-> [a \in Actions |-> Zero]]

(***************************************************************************)
(* choose_action and update_Q as functions: one call on an arbitrary       *)
(* table.  The tables hold the value 0 of the initial table and the        *)
(* ends -100/(1-gamma) and 1/(1-gamma) of the range of discounted returns; *)
(* the step size and the discount are arguments of update_Q.               *)
(***************************************************************************)
ReturnLow == RDiv(parse_reward(-5), RSub(One, gamma))

ReturnHigh == RDiv(parse_reward(1), RSub(One, gamma))

QGrid == {ReturnLow, Zero, ReturnHigh}

Tables == [Bins -> [Actions -> QGrid]]

StepSizes == {alpha, <<1, 2>>, <<9, 10>>}

Discounts == {gamma, One}

IdleCoin ==
    /\ p_star = 0
    /\ x_train = <<>>
    /\ y_train = <<>>
    /\ p_hat = 0
    /\ f_hat_train = <<>>

IdleTrain ==
    /\ state = <<>>
    /\ game_over = FALSE
    /\ game_score = 0
    /\ cumulative_reward = Zero
    /\ scores = <<>>
    /\ returns = <<>>
    /\ n_updates = 0
    /\ updated = {}
    /\ epoch = 0
    /\ reward_log = <<>>

InitUpdate ==
    /\ IdleFn
    /\ IdleCoin
    /\ IdlePI
    /\ IdleTrain
    /\ pc = "call"
    /\ Q \in Tables
    /\ Q_before = <<>>
    /\ call = <<>>
    /\ chosen = -1

call_choose_action(s) ==
    /\ pc = "call"
    /\ chosen' = choose_action(s, Q)
    /\ call' = [fn |-> "choose_action", state |-> s]
    /\ pc' = "returned"
    /\ UNCHANGED <<Q, Q_before, trainVars, coinVars, piVars, fnVars>>

call_update_Q(s, ns, a, game_reward, al, ga) ==
    /\ pc = "call"
    /\ Q' = update_Q(Q, s, ns, a, parse_reward(game_reward), al, ga)
    /\ Q_before' = Q
    /\ call' = [fn |-> "update_Q", state |-> s, next_state |-> ns,
                action |-> a, reward |-> parse_reward(game_reward),
                alpha |-> al, gamma |-> ga, game_over |-> game_reward < 0]
    /\ pc' = "returned"
    /\ UNCHANGED <<chosen, trainVars, coinVars, piVars, fnVars>>

NextUpdate ==
    \/ \E s \in Bins : call_choose_action(s)
    \/ \E s \in Bins, ns \in Bins, a \in Actions, game_reward \in GameRewards,
          al \in StepSizes, ga \in Discounts :
          call_update_Q(s, ns, a, game_reward, al, ga)

SpecUpdate == InitUpdate /\ [][NextUpdate]_vars

(***************************************************************************)
(* Properties of choose_action and update_Q.                               *)
(***************************************************************************)
UpdateReturned == pc = "returned" /\ call.fn = "update_Q"

ChoiceReturned == pc = "returned" /\ call.fn = "choose_action"

\* Q_old and Q_new of the last update_Q call, read from the table as the
\* call received it
LastOld == Q_before[call.state][call.action]

LastTarget ==
    RAdd(call.reward, RMul(call.gamma, RowMax(Q_before[call.next_state])))

LastWritten == Q[call.state][call.action]

C9_GreedyOnRow ==
    ChoiceReturned =>
        /\ chosen \in Actions
        /\ RLeq(Q[call.state][1 - chosen], Q[call.state][chosen])
        /\ \A b \in Bins :
              Q[b] = Q[call.state] => choose_action(b, Q) = chosen

\* C9 witness: flapping is chosen, its value strictly the larger one, while
\* another bin holds different values.
C9_Witness ==
    /\ ChoiceReturned
    /\ chosen = 0
    /\ RLess(Q[call.state][1], Q[call.state][0])
    /\ \E b \in Bins : Q[b] # Q[call.state]

(***************************************************************************)
(* The training loop, from the all-zero table.                             *)
(***************************************************************************)
Init ==
    /\ IdleFn
    /\ IdleCoin
    /\ IdlePI
    /\ pc = "epoch"
    /\ Q = ZeroTable
    /\ scores = <<>>
    /\ returns = <<>>
    /\ state = <<>>
    /\ game_over = FALSE
    /\ game_score = 0
    /\ cumulative_reward = Zero
    /\ n_updates = 0
    /\ Q_before = <<>>
    /\ call = <<>>
    /\ chosen = -1
    /\ updated = {}
    /\ epoch = 0
    /\ reward_log = <<>>

\* a slip: cumulative_reward = 0.0 placed before the for loop, so that the
\* return runs on from one episode into the next
start_episode_return_kept(g) ==
    /\ pc = "epoch"
    /\ epoch < n_epochs
    /\ epoch' = epoch + 1
    /\ state' = parse_state(g)
    /\ game_over' = FALSE
    /\ game_score' = 0
    /\ pc' = "loop"
    /\ UNCHANGED <<Q, Q_before, call, chosen, scores, returns, n_updates,
                   updated, reward_log, cumulative_reward, coinVars, piVars,
                   fnVars>>

\* for _ in range(n_epochs): ple_env.init(); state = parse_state(...);
\* cumulative_reward = 0.0
start_episode(g) ==
    /\ pc = "epoch"
    /\ epoch < n_epochs
    /\ epoch' = epoch + 1
    /\ state' = parse_state(g)
    /\ cumulative_reward' = Zero
    /\ game_over' = FALSE
    /\ game_score' = 0
    /\ pc' = "loop"
    /\ UNCHANGED <<Q, Q_before, call, chosen, scores, returns, n_updates,
                   updated, reward_log, coinVars, piVars, fnVars>>

\* one pass of the body of: while not ple_env.game_over()
train_step(game_reward, g) ==
    /\ pc = "loop"
    /\ ~game_over
    /\ n_updates < MaxUpdates
    /\ LET action == choose_action(state, Q)
           reward == parse_reward(game_reward)
           next_state == parse_state(g)
       IN  /\ Q' = update_Q(Q, state, next_state, action, reward, alpha, gamma)
           /\ cumulative_reward' = RAdd(cumulative_reward, reward)
           /\ state' = next_state
           /\ chosen' = action
           /\ Q_before' = Q
           /\ call' = [fn |-> "update_Q", state |-> state,
                       next_state |-> next_state, action |-> action,
                       reward |-> reward, alpha |-> alpha, gamma |-> gamma,
                       game_over |-> game_reward < 0]
           /\ updated' = updated \cup {<<state, action>>}
    /\ game_over' = (game_reward < 0)
    /\ game_score' = game_score + game_reward
    /\ n_updates' = n_updates + 1
    /\ reward_log' = Append(reward_log, <<epoch, parse_reward(game_reward)>>)
    /\ UNCHANGED <<pc, scores, returns, epoch, coinVars, piVars, fnVars>>

\* scores.append(ple_env.score()); returns.append(cumulative_reward)
end_episode ==
    /\ pc = "loop"
    /\ game_over
    /\ scores' = Append(scores, game_score)
    /\ returns' = Append(returns, cumulative_reward)
    /\ pc' = "epoch"
    /\ UNCHANGED <<Q, Q_before, call, chosen, state, game_over, game_score,
                   cumulative_reward, n_updates, updated, epoch, reward_log,
                   coinVars, piVars, fnVars>>

Next ==
    \/ \E g \in GameStates : start_episode(g)
    \/ \E game_reward \in GameRewards, g \in GameStates :
          train_step(game_reward, g)
    \/ end_episode

Spec == Init /\ [][Next]_vars

(***************************************************************************)
(* Properties of the training loop.                                        *)
(***************************************************************************)
\* C7: update_Q changes only the entry Q[state][action]; every other entry
\* is as the call received it, and an entry that was never the (state,
\* action) of an update still holds its initial value 0.
C7_OnlyOneEntryWritten ==
    /\ n_updates > 0 =>
          \A b \in Bins, a \in Actions :
              <<b, a>> # <<call.state, call.action>> => Q[b][a] = Q_before[b][a]
    /\ \A b \in Bins, a \in Actions :
          <<b, a>> \notin updated => Q[b][a] = Zero

\* C7 witness: two updates have written two different entries, both non-zero,
\* and the other action of the last state is untouched.
C7_Witness ==
    /\ n_updates = 2
    /\ Cardinality(updated) = 2
    /\ \A e \in updated : Q[e[1]][e[2]] # Zero
    /\ <<call.state, 1 - call.action>> \notin updated

\* C8: update_Q sets Q[state][action] to
\* (1 - alpha) * Q_old + alpha * (reward + gamma * max_a' Q[next_state][a'])
\* with Q_old and the maximum read from the table before the call, on every
\* transition of the training loop, the one that ends the episode included.
C8_TemporalDifferenceRule ==
    n_updates > 0 =>
        Q[call.state][call.action] =
            RAdd(RMul(<<9, 10>>, Q_before[call.state][call.action]),
                 RMul(<<1, 10>>,
                      RAdd(call.reward,
                           RMul(<<99, 100>>,
                                RMax(Q_before[call.next_state][0],
                                     Q_before[call.next_state][1])))))

\* C8 witness: the transition that ends an episode, with a non-zero bootstrap
\* term from a next state other than the state updated.
C8_Witness ==
    /\ n_updates > 0
    /\ call.game_over
    /\ call.state # call.next_state
    /\ RowMax(Q_before[call.next_state]) # Zero
    /\ RowMax(Q_before[call.next_state]) # RowMax(Q_before[call.state])

(***************************************************************************)
(* DSA5102_decision_trees.ipynb: model based policy iteration.             *)
(* env.P[s][a] is a list of outcomes (probability, next_state, reward,     *)
(* done).  The environments are all tables over nS states and nA actions   *)
(* whose last state is absorbing with reward 0, as gym's terminal tiles    *)
(* are, and whose other entries are one certain outcome with reward 0 or   *)
(* 1, or an even chance between ending with reward 1 and with reward 0.    *)
(***************************************************************************)
EnvStates == 0 .. (nS - 1)

EnvActions == 0 .. (nA - 1)

Terminal == nS - 1

\* max_iter of the policy_evaluation call in policy_iteration
EvalMaxIter == 100

\* gamma of the calls in policy_iteration
PIGamma == One

Certain(t, r) ==
    <<[probability |-> One, next_state |-> t, reward |-> r,
       done |-> (t = Terminal)]>>

EvenChance ==
    <<[probability |-> <<1, 2>>, next_state |-> Terminal, reward |-> One,
       done |-> TRUE],
      [probability |-> <<1, 2>>, next_state |-> Terminal, reward |-> Zero,
       done |-> TRUE]>>

OutcomeLists ==
    {Certain(t, r) : t \in EnvStates, r \in {Zero, One}} \cup {EvenChance}

Envs ==
    {[s \in EnvStates |->
         IF s = Terminal
         THEN [a \in EnvActions |-> Certain(Terminal, Zero)]
         ELSE free[s]] :
     free \in [EnvStates \ {Terminal} -> [EnvActions -> OutcomeLists]]}

\* the inner loop of both functions:
\*   for probablity, next_state, reward, _ in env.P[state][action]:
\*       acc += probablity * (reward + gamma * value_function[next_state])
RECURSIVE Accumulate(_, _, _, _)
Accumulate(acc, outcomes, v, ga) ==
    IF outcomes = <<>>
    THEN acc
    ELSE Accumulate(
             RAdd(acc, RMul(Head(outcomes).probability,
                            RAdd(Head(outcomes).reward,
                                 RMul(ga, v[Head(outcomes).next_state])))),
             Tail(outcomes), v, ga)

\* np.zeros(env.nS)
ZeroValues == [s \in EnvStates |-> Zero]

\* one pass of the loop of policy_evaluation: tmp, computed from
\* value_function
evaluation_sweep(P, pol, ga, v) ==
    [s \in EnvStates |-> Accumulate(Zero, P[s][pol[s]], v, ga)]

\* compute_action_value(env, state, value_function, gamma)
compute_action_value(P, s, v, ga) ==
    [a \in EnvActions |-> Accumulate(Zero, P[s][a], v, ga)]

\* the last index that holds the maximum, in place of the first
argmax_last(values) ==
    CHOOSE a \in DOMAIN values :
        /\ \A b \in DOMAIN values : RLeq(values[b], values[a])
        /\ \A b \in DOMAIN values : b > a => RLess(values[b], values[a])

\* np.argmax: the first index that holds the maximum
argmax(values) ==
    CHOOSE a \in DOMAIN values :
        /\ \A b \in DOMAIN values : RLeq(values[b], values[a])
        /\ \A b \in DOMAIN values : b < a => RLess(values[b], values[a])

\* policy_improvement(env, value_function, gamma)
policy_improvement(P, v, ga) ==
    [s \in EnvStates |-> argmax(compute_action_value(P, s, v, ga))]

\* a convergence test in place of the plain count: stop as soon as a pass
\* changed nothing
range_exhausted_or_converged(done, n, unchanged) ==
    done >= n \/ (done > 0 /\ unchanged)

\* for _ in range(n): the loop ends after n passes, whether or not the last
\* pass changed anything
range_exhausted(done, n, unchanged) == done >= n

InitPI ==
    /\ IdleFn
    /\ IdleCoin
    /\ IdleQ
    /\ pc = "for"
    /\ envP \in Envs
    /\ max_iter \in 0 .. MaxRounds
    /\ policy \in [EnvStates -> EnvActions]
    /\ policy_prev = policy
    /\ value_function = <<>>
    /\ iter_i = 0
    /\ eval_value = <<>>
    /\ sweep_k = 0
    /\ sweeps_total = 0
    /\ value_last = <<>>

\* for i in range(max_iter): ... policy_evaluation(env, policy, 1.0, 100)
\* is entered: value_function = np.zeros(env.nS)
begin_evaluation ==
    /\ pc = "for"
    /\ ~range_exhausted(iter_i, max_iter, iter_i > 0 /\ policy = policy_prev)
    /\ eval_value' = ZeroValues
    /\ sweep_k' = 0
    /\ pc' = "sweep"
    /\ UNCHANGED <<envP, max_iter, policy, policy_prev, value_function,
                   iter_i, sweeps_total, value_last, coinVars, qVars, fnVars>>

\* one pass of: for _ in range(max_iter) in policy_evaluation
sweep ==
    /\ pc = "sweep"
    /\ ~range_exhausted(sweep_k, EvalMaxIter,
                        evaluation_sweep(envP, policy, PIGamma, eval_value)
                            = eval_value)
    /\ eval_value' = evaluation_sweep(envP, policy, PIGamma, eval_value)
    /\ sweep_k' = sweep_k + 1
    /\ sweeps_total' = sweeps_total + 1
    /\ UNCHANGED <<pc, envP, max_iter, policy, policy_prev, value_function,
                   iter_i, value_last, coinVars, qVars, fnVars>>

\* policy_evaluation returns: value_function = policy_evaluation(...)
return_evaluation ==
    /\ pc = "sweep"
    /\ range_exhausted(sweep_k, EvalMaxIter,
                       evaluation_sweep(envP, policy, PIGamma, eval_value)
                           = eval_value)
    /\ value_function' = eval_value
    /\ value_last' = value_function
    /\ pc' = "improve"
    /\ UNCHANGED <<envP, max_iter, policy, policy_prev, iter_i, eval_value,
                   sweep_k, sweeps_total, coinVars, qVars, fnVars>>

\* policy = policy_improvement(env, value_function, 1.0)
improve ==
    /\ pc = "improve"
    /\ policy' = policy_improvement(envP, value_function, PIGamma)
    /\ iter_i' = iter_i + 1
    /\ pc' = "for"
    /\ UNCHANGED <<envP, max_iter, policy_prev, value_function, eval_value,
                   sweep_k, sweeps_total, value_last, coinVars, qVars, fnVars>>

\* return value_function, policy  (with max_iter = 0 value_function was
\* never bound and the return raises UnboundLocalError)
return_iteration ==
    /\ pc = "for"
    /\ range_exhausted(iter_i, max_iter, iter_i > 0 /\ policy = policy_prev)
    /\ pc' = IF value_function = <<>> THEN "raised" ELSE "returned"
    /\ UNCHANGED <<piVars, coinVars, qVars, fnVars>>

NextPI ==
    \/ begin_evaluation
    \/ sweep
    \/ return_evaluation
    \/ improve
    \/ return_iteration

SpecPI == InitPI /\ [][NextPI]_vars

(***************************************************************************)
(* Properties of policy iteration.                                         *)
(***************************************************************************)
\* C5: the value function computed by policy_evaluation in round i+1 is
\* pointwise greater than or equal to the one computed in round i.
C5_ValueNonDecreasing ==
    (pc = "improve" /\ iter_i >= 1) =>
        \A s \in EnvStates : RLeq(value_last[s], value_function[s])

Terminated == pc \in {"returned", "raised"}

\* how far policy_iteration has come: rounds, then the position in the round
Progress ==
    iter_i * (EvalMaxIter + 3)
        + (CASE pc = "for" -> 0
             [] pc = "sweep" -> 1 + sweep_k
             [] pc = "improve" -> EvalMaxIter + 2
             [] OTHER -> 1)

CallOutcomeLists ==
    {Certain(t, r) : t \in {0, Terminal}, r \in {Zero, One}}
        \cup {EvenChance}

CallEnvs ==
    {[s \in EnvStates |->
         CASE s = Terminal -> [a \in EnvActions |-> Certain(Terminal, Zero)]
           [] s = 0 /\ s # Terminal -> row
           [] OTHER -> [a \in EnvActions |-> Certain(s - 1, One)]] :
     row \in [EnvActions -> CallOutcomeLists]}

ValueGrid == {Zero, One}

FnDiscounts == {One, <<9, 10>>}

\* an allocation that hands out the newest existing array again
np_zeros_reuse(h, n) == h

\* np.zeros(n), np.zeros_like(array of n): a new array of zeros is added to
\* the arrays that exist; its address is the new Len
np_zeros(h, n) == Append(h, [s \in 0 .. (n - 1) |-> Zero])

\* a sweep that reads the array it is writing
tmp_after_state_in_place(tmp, v, P, s, a, ga) ==
    [tmp EXCEPT ![s] = Accumulate(tmp[s], P[s][a], tmp, ga)]

\* for probablity, next_state, reward, _ in env.P[state][action]:
\*     tmp[state] += probablity * (reward + gamma * value_function[next_state])
tmp_after_state(tmp, v, P, s, a, ga) ==
    [tmp EXCEPT ![s] = Accumulate(tmp[s], P[s][a], v, ga)]

NoFrame ==
    [fn |-> "none", policy |-> 0, value_function |-> 0, gamma |-> Zero,
     max_iter |-> 0, tmp |-> 0, state |-> 0, k |-> 0, ret |-> 0]

InitPIFn ==
    /\ IdleRec
    /\ IdleTrials
    /\ IdleParse
    /\ IdleRBF
    /\ IdleCoin
    /\ IdleQ
    /\ pc = "fn_call"
    /\ envP \in CallEnvs
    /\ heap = <<>>
    /\ heap_at_call = <<>>
    /\ frame = NoFrame
    /\ max_iter = 0
    /\ policy = <<>>
    /\ policy_prev = <<>>
    /\ value_function = <<>>
    /\ iter_i = 0
    /\ eval_value = <<>>
    /\ sweep_k = 0
    /\ sweeps_total = 0
    /\ value_last = <<>>

\* policy_evaluation(env, policy, gamma, max_iter) is entered:
\*     value_function = np.zeros(env.nS)
call_policy_evaluation(p, ga, n) ==
    /\ pc = "fn_call"
    /\ heap' = np_zeros(<<p>>, nS)
    /\ frame' = [NoFrame EXCEPT !.fn = "policy_evaluation",
                                !.policy = 1,
                                !.value_function = Len(heap'),
                                !.gamma = ga,
                                !.max_iter = n]
    /\ heap_at_call' = <<p>>
    /\ pc' = "eval_for"
    /\ UNCHANGED <<piVars, coinVars, qVars, recVars, trialVars, parseVars,
                   rbfVars>>

\* for _ in range(max_iter):  tmp = np.zeros_like(value_function)
eval_begin_sweep ==
    /\ pc = "eval_for"
    /\ frame.k < frame.max_iter
    /\ heap' = np_zeros(heap, nS)
    /\ frame' = [frame EXCEPT !.tmp = Len(heap'), !.state = 0]
    /\ pc' = "eval_state"
    /\ UNCHANGED <<heap_at_call, piVars, coinVars, qVars, recVars, trialVars,
                   parseVars, rbfVars>>

\* one pass of: for state, action in enumerate(policy)
eval_state ==
    /\ pc = "eval_state"
    /\ frame.state < nS
    /\ heap' = [heap EXCEPT ![frame.tmp] =
                    tmp_after_state(heap[frame.tmp],
                                    heap[frame.value_function], envP,
                                    frame.state,
                                    heap[frame.policy][frame.state],
                                    frame.gamma)]
    /\ frame' = [frame EXCEPT !.state = frame.state + 1]
    /\ UNCHANGED <<pc, heap_at_call, piVars, coinVars, qVars, recVars,
                   trialVars, parseVars, rbfVars>>

\* value_function = tmp: the name is bound to the array tmp
eval_end_sweep ==
    /\ pc = "eval_state"
    /\ frame.state = nS
    /\ frame' = [frame EXCEPT !.value_function = frame.tmp,
                              !.k = frame.k + 1]
    /\ pc' = "eval_for"
    /\ UNCHANGED <<heap, heap_at_call, piVars, coinVars, qVars, recVars,
                   trialVars, parseVars, rbfVars>>

\* return value_function
eval_return ==
    /\ pc = "eval_for"
    /\ frame.k = frame.max_iter
    /\ frame' = [frame EXCEPT !.ret = frame.value_function]
    /\ pc' = "fn_returned"
    /\ UNCHANGED <<heap, heap_at_call, piVars, coinVars, qVars, recVars,
                   trialVars, parseVars, rbfVars>>

\* policy_improvement(env, value_function, gamma) is entered:
\*     policy = np.zeros(env.nS)
call_policy_improvement(v, ga) ==
    /\ pc = "fn_call"
    /\ heap' = np_zeros(<<v>>, nS)
    /\ frame' = [NoFrame EXCEPT !.fn = "policy_improvement",
                                !.policy = Len(heap'),
                                !.value_function = 1,
                                !.gamma = ga]
    /\ heap_at_call' = <<v>>
    /\ pc' = "improve_state"
    /\ UNCHANGED <<piVars, coinVars, qVars, recVars, trialVars, parseVars,
                   rbfVars>>

\* one pass of: for state in range(env.nS):
\*     action_values = compute_action_value(env, state, value_function, gamma)
\*     policy[state] = np.argmax(action_values)
improve_state ==
    /\ pc = "improve_state"
    /\ frame.state < nS
    /\ heap' = [heap EXCEPT ![frame.policy][frame.state] =
                    Rat(argmax(compute_action_value(
                                   envP, frame.state,
                                   heap[frame.value_function],
                                   frame.gamma)), 1)]
    /\ frame' = [frame EXCEPT !.state = frame.state + 1]
    /\ UNCHANGED <<pc, heap_at_call, piVars, coinVars, qVars, recVars,
                   trialVars, parseVars, rbfVars>>

\* return policy
improve_return ==
    /\ pc = "improve_state"
    /\ frame.state = nS
    /\ frame' = [frame EXCEPT !.ret = frame.policy]
    /\ pc' = "fn_returned"
    /\ UNCHANGED <<heap, heap_at_call, piVars, coinVars, qVars, recVars,
                   trialVars, parseVars, rbfVars>>

NextPIFn ==
    \/ \E p \in [EnvStates -> EnvActions], ga \in FnDiscounts,
          n \in 0 .. MaxSweeps :
           call_policy_evaluation(p, ga, n)
    \/ eval_begin_sweep
    \/ eval_state
    \/ eval_end_sweep
    \/ eval_return
    \/ \E v \in [EnvStates -> ValueGrid], ga \in FnDiscounts :
           call_policy_improvement(v, ga)
    \/ improve_state
    \/ improve_return

SpecPIFn == InitPIFn /\ [][NextPIFn]_vars

(***************************************************************************)
(* Properties of policy_evaluation and policy_improvement.                 *)
(***************************************************************************)
ImprovementReturned ==
    pc = "fn_returned" /\ frame.fn = "policy_improvement"

EvaluationReturned ==
    pc = "fn_returned" /\ frame.fn = "policy_evaluation"

\* q(s, .) of the claim, on the value function the call received
QAtCall(s) == compute_action_value(envP, s, heap_at_call[1], frame.gamma)

\* C11: policy_improvement returns, for every state s, an action that
\* maximizes q(s, a) = sum over env.P[s][a] of probability * (reward +
\* gamma * value_function[next_state]), and of the actions that attain the
\* maximum the one with the lowest index.
C11_GreedyLowestIndex ==
    ImprovementReturned =>
        \A s \in EnvStates :
            \E a \in EnvActions :
                /\ heap[frame.ret][s] = <<a, 1>>
                /\ \A b \in EnvActions : RLeq(QAtCall(s)[b], QAtCall(s)[a])
                /\ \A b \in EnvActions :
                       b < a => RLess(QAtCall(s)[b], QAtCall(s)[a])

\* C11 witness: a returned policy that takes action 0 in a state where both
\* actions attain a non-zero maximum, and action 1 in a state where it alone
\* attains it.
C11_Witness ==
    /\ ImprovementReturned
    /\ \E s \in EnvStates :
           /\ heap[frame.ret][s] = <<0, 1>>
           /\ QAtCall(s)[0] = QAtCall(s)[1]
           /\ QAtCall(s)[0] # Zero
    /\ \E s \in EnvStates :
           /\ heap[frame.ret][s] = <<1, 1>>
           /\ RLess(QAtCall(s)[0], QAtCall(s)[1])

\* v_k of the claim: v_0 = 0, v_{k+1} = one synchronous sweep of v_k
RECURSIVE v_sweeps(_, _, _, _)
v_sweeps(P, pol, ga, k) ==
    IF k = 0
    THEN ZeroValues
    ELSE evaluation_sweep(P, pol, ga, v_sweeps(P, pol, ga, k - 1))

C13_InputsUntouched ==
    /\ [](/\ \A r \in 1 .. Len(heap_at_call) : heap[r] = heap_at_call[r]
          /\ pc = "fn_returned" => frame.ret > Len(heap_at_call))
    /\ [][envP' = envP]_vars

\* C13 witness: an improvement returned, as the second array that exists, a
\* policy that differs in every state from the value_function array it
\* received, and that array is as it was.
C13_Witness ==
    /\ ImprovementReturned
    /\ Len(heap) = 2
    /\ frame.ret = 2
    /\ \A s \in EnvStates : heap[2][s] # heap[1][s]
    /\ heap[1] = heap_at_call[1]
    /\ heap[1] # ZeroValues


(***************************************************************************)
(* DSA5102_PCA.ipynb: recommend(bought_id, num_recommendation).  The       *)
(* catalogue has NItems items; an item's latent vector has n_components    *)
(* entries, of which the model lets the first, the tenth and the eleventh  *)
(* be 0 or 1 and keeps the others 0.                                       *)
(***************************************************************************)
\* pca = PCA(n_components=100)
n_components == 100

\* scores = latents.to_numpy()[:, :10]
n_scores == 10

Items == 0 .. (NItems - 1)

LatentVectors ==
    {[c \in 1 .. n_components |->
         CASE c = 1 -> a
           [] c = n_scores -> b
           [] c = n_scores + 1 -> d
           [] OTHER -> 0] : a \in {0, 1}, b \in {0, 1}, d \in {0, 1}}

\* np.sum((scores - scores[bought_id, np.newaxis, :])**2, axis=1) for one
\* row, the sum taken over the columns 1 .. n
RECURSIVE squared_distance(_, _, _)
squared_distance(u, v, n) ==
    IF n = 0
    THEN 0
    ELSE squared_distance(u, v, n - 1) + (u[n] - v[n]) * (u[n] - v[n])

\* np.argsort(d): the orders of the indexes along which d does not
\* decrease; the order among equal entries is the sort's to choose
argsorts(d) ==
    {order \in [1 .. NItems -> Items] :
        /\ \A i, j \in 1 .. NItems : i # j => order[i] # order[j]
        /\ \A i \in 1 .. (NItems - 1) : d[order[i]] <= d[order[i + 1]]}

InitRec ==
    /\ IdleCoin
    /\ IdleQ
    /\ IdlePI
    /\ IdleHeap
    /\ IdleTrials
    /\ IdleParse
    /\ IdleRBF
    /\ pc = "rec_call"
    /\ latents \in [Items -> LatentVectors]
    /\ bought_id = 0
    /\ num_recommendation = 0
    /\ distances = <<>>
    /\ rec_ids = <<>>

\* recommend(bought_id, num_recommendation):
\*     rec_ids = np.argsort(distances)[1:1+num_recommendation]
recommend(b, n) ==
    /\ pc = "rec_call"
    /\ bought_id' = b
    /\ num_recommendation' = n
    /\ distances' = [i \in Items |->
                        squared_distance(latents[i], latents[b], n_scores)]
    /\ \E order \in argsorts(distances') :
           rec_ids' = SubSeq(order, 2, 1 + n)
    /\ pc' = "rec_returned"
    /\ UNCHANGED <<latents, coinVars, qVars, piVars, heapVars, trialVars,
                   parseVars, rbfVars>>

NextRec ==
    \E b \in Items, n \in 1 .. (NItems - 1) : recommend(b, n)

SpecRec == InitRec /\ [][NextRec]_vars

\* C14: recommend lists the num_recommendation catalogue items nearest to
\* the bought item (no item left out is nearer to it than an item listed),
\* nearness being the squared distance over the first 10 latent components,
\* in non-decreasing order of that distance.
C14_NearestNeighbours ==
    pc = "rec_returned" =>
        LET d(i) == squared_distance(latents[i], latents[bought_id], 10)
            listed == {rec_ids[k] : k \in 1 .. Len(rec_ids)}
        IN  /\ Len(rec_ids) = num_recommendation
            /\ Cardinality(listed) = num_recommendation
            /\ \A k \in 1 .. (Len(rec_ids) - 1) :
                   d(rec_ids[k]) <= d(rec_ids[k + 1])
            /\ \A i \in Items \ (listed \cup {bought_id}) :
                   \A j \in listed : d(j) <= d(i)


(***************************************************************************)
(* DSA5102_statistical_learning.ipynb: sample_p_hats and the distribution  *)
(* of p_hat.  A uniform draw falls in each of the GridN cells              *)
(* ((k-1)/GridN, k/GridN) with probability 1/GridN, and on a cell boundary *)
(* with probability 0.  In units of 1/(2 GridN) a cell is its odd          *)
(* midpoint and the thresholds p_star and z are the even numbers, so every *)
(* comparison of a draw with a threshold is the comparison of the reals.   *)
(***************************************************************************)
Unit == 2 * GridN

CellDraws == {2 * k - 1 : k \in 1 .. GridN}

CellThresholds == {2 * j : j \in 0 .. GridN}

CellDatasets(n) == [1 .. n -> CellDraws]

RECURSIVE RPow(_, _)
RPow(a, n) == IF n = 0 THEN One ELSE RMul(a, RPow(a, n - 1))

\* the mass of the draws labelled 0 left out
p_hat_CDF_heads_only(z, p, n) == RPow(Rat(z, Unit), n)

\* p_hat_CDF(z, p_star, N) = (1 - p_star + z)**N
p_hat_CDF(z, p, n) == RPow(RAdd(RSub(One, Rat(p, Unit)), Rat(z, Unit)), n)

InitTrials ==
    /\ IdleQ
    /\ IdlePI
    /\ IdleHeap
    /\ IdleRec
    /\ IdleParse
    /\ IdleRBF
    /\ pc = "trials"
    /\ p_star \in CellThresholds
    /\ num_trials \in 1 .. MaxTrials
    /\ num_flips \in 1 .. MaxN
    /\ p_hats = <<>>
    /\ x_train = <<>>
    /\ y_train = <<>>
    /\ p_hat = 0
    /\ f_hat_train = <<>>

\* one pass of: for _ in range(num_trials):
\*     x_train, y_train = flip_coin(num_flips=N, p=p_star)
\*     p_hats.append(algorithm_p_hat(x_train, y_train))
sample_trial ==
    /\ pc = "trials"
    /\ Len(p_hats) < num_trials
    /\ \E xs \in CellDatasets(num_flips) :
           /\ x_train' = xs
           /\ y_train' = indicator(xs, p_star)
           /\ p_hat' = algorithm_p_hat(xs, indicator(xs, p_star))
    /\ p_hats' = Append(p_hats, p_hat')
    /\ UNCHANGED <<pc, p_star, f_hat_train, num_trials, num_flips, qVars,
                   piVars, heapVars, recVars, parseVars, rbfVars>>

\* return p_hats
return_p_hats ==
    /\ pc = "trials"
    /\ Len(p_hats) = num_trials
    /\ pc' = "trials_done"
    /\ UNCHANGED <<coinVars, qVars, piVars, fnVars>>

NextTrials == sample_trial \/ return_p_hats

SpecTrials == InitTrials /\ [][NextTrials]_vars

\* the probability that a dataset of n draws has p_hat <= z: the share of
\* the equally likely assignments of draws to cells that give p_hat <= z
ProbPHatAtMost(z, p, n) ==
    Rat(Cardinality({xs \in CellDatasets(n) :
                        algorithm_p_hat(xs, indicator(xs, p)) <= z}),
        GridN ^ n)

\* C15: P[p_hat <= z] = (1 - p_star + z)^N for 0 <= z <= p_star, and for
\* every dataset drawn p_hat <= z holds exactly when every sample has
\* x_i <= z or is labelled 0.
C15_PHatDistribution ==
    \A z \in CellThresholds :
        z <= p_star =>
            /\ p_hats = <<>> =>
                   ProbPHatAtMost(z, p_star, num_flips)
                       = p_hat_CDF(z, p_star, num_flips)
            /\ p_hats # <<>> =>
                   (p_hat <= z <=>
                        \A i \in DOMAIN x_train :
                            x_train[i] <= z \/ y_train[i] = 0)

\* C15 witness: all the trials of a run made, the last on a dataset with a
\* draw above p_star and heads on both sides of a threshold z below p_star
\* for which the closed form is neither 0 nor 1.
C15_Witness ==
    /\ pc = "trials_done"
    /\ Len(p_hats) = 2
    /\ num_flips = 3
    /\ \E i \in DOMAIN x_train : x_train[i] > p_star
    /\ \E z \in CellThresholds :
           /\ 0 < z /\ z < p_hat /\ p_hat < p_star
           /\ \E i \in DOMAIN x_train : x_train[i] < z
           /\ p_hat_CDF(z, p_star, num_flips) = <<8, 27>>


(***************************************************************************)
(* flip_coin and indicator, under SpecCoin.                                *)
(***************************************************************************)
\* C17: the label flip_coin gives a draw x is 1 if x <= p_star and 0 if
\* x > p_star, the boundary x = p_star included.
C17_HeadsUpToThreshold ==
    pc # "flip" =>
        \A i \in DOMAIN x_train :
            y_train[i] = IF x_train[i] <= p_star THEN 1 ELSE 0


(***************************************************************************)
(* DSA5102_RL_modelfree.ipynb: parse_state and parse_reward as functions,  *)
(* on the whole range of each feature of the raw state.  The raw states    *)
(* are the state printed in the notebook with one feature moved through    *)
(* its range: the distance to the next pipe through 0 .. 349, or the       *)
(* bird at the top or the bottom of the screen and one pipe edge through   *)
(* 0 .. 512, which gives every height difference in -512 .. 512, and the   *)
(* states with every feature at an end of its range.                       *)
(***************************************************************************)
\* np.ceil(a / b).astype('int') for integers a and b > 0
CeilDiv(a, b) == -((-a) \div b)

\* the bins of the height differences counted with // in place of np.ceil
n_bins_top_floor == 1024 \div bin_size

n_bins_dist == CeilDiv(350, bin_size)

n_bins_top == CeilDiv(1024, bin_size)

n_bins_bot == CeilDiv(1024, bin_size)

\* the shape of Q = np.zeros((n_bins_dist, n_bins_top, n_bins_bot, 2))
Q_shape == <<n_bins_dist, n_bins_top, n_bins_bot, 2>>

PrintedGameState ==
    [next_pipe_dist_to_player |-> 309, player_y |-> 256,
     next_pipe_top_y |-> 53, next_pipe_bottom_y |-> 153]

RawGameStates ==
    {[PrintedGameState EXCEPT !.next_pipe_dist_to_player = d] :
        d \in 0 .. 349}
    \cup {[PrintedGameState EXCEPT !.player_y = y, !.next_pipe_top_y = t] :
             y \in {0, 512}, t \in 0 .. 512}
    \cup {[PrintedGameState EXCEPT !.player_y = y, !.next_pipe_bottom_y = b] :
             y \in {0, 512}, b \in 0 .. 512}
    \cup [next_pipe_dist_to_player : {0, 349}, player_y : {0, 512},
          next_pipe_top_y : {0, 512}, next_pipe_bottom_y : {0, 512}]

InitParse ==
    /\ IdleCoin
    /\ IdleQ
    /\ IdlePI
    /\ IdleHeap
    /\ IdleRec
    /\ IdleTrials
    /\ IdleRBF
    /\ pc = "parse_call"
    /\ raw_game_state \in RawGameStates
    /\ raw_game_reward \in GameRewards
    /\ parsed_state = <<>>
    /\ parsed_reward = <<>>

\* next_state = parse_state(game_env.getGameState())
call_parse_state ==
    /\ pc = "parse_call"
    /\ parsed_state = <<>>
    /\ parsed_state' = parse_state(raw_game_state)
    /\ UNCHANGED <<pc, raw_game_state, raw_game_reward, parsed_reward,
                   coinVars, qVars, piVars, heapVars, recVars, trialVars,
                   rbfVars>>

\* reward = parse_reward(game_reward)
call_parse_reward ==
    /\ pc = "parse_call"
    /\ parsed_reward = <<>>
    /\ parsed_reward' = parse_reward(raw_game_reward)
    /\ UNCHANGED <<pc, raw_game_state, raw_game_reward, parsed_state,
                   coinVars, qVars, piVars, heapVars, recVars, trialVars,
                   rbfVars>>

NextParse == call_parse_state \/ call_parse_reward

SpecParse == InitParse /\ [][NextParse]_vars

(***************************************************************************)
(* Properties of the parsers.                                              *)
(***************************************************************************)
\* C18: parse_reward returns +1 for a game reward >= 0 (0 or +1: no pipe or
\* floor hit) and -100 for a negative one (a hit); its result is always one
\* of the two values 1 and -100.
C18_RewardIsOneOrMinusHundred ==
    parsed_reward # <<>> =>
        /\ raw_game_reward \in {0, 1} => parsed_reward = <<1, 1>>
        /\ raw_game_reward < 0 => parsed_reward = <<-100, 1>>
        /\ parsed_reward \in {<<1, 1>>, <<-100, 1>>}

\* C18 witness: the reward of a step on which nothing happened (game reward
\* 0) was parsed.
C18_Witness ==
    /\ parsed_reward = <<1, 1>>
    /\ raw_game_reward = 0

\* the height differences the raw states cover, and the values of state[1]
\* that parse_state gives them
TopDifferences ==
    {g.next_pipe_top_y - g.player_y : g \in RawGameStates}

TopBinValues == {parse_state(g)[2] : g \in RawGameStates}

C20_IndexesInsideTable ==
    (/\ parsed_state # <<>>
     /\ 0 <= raw_game_state.next_pipe_dist_to_player
     /\ raw_game_state.next_pipe_dist_to_player < 350
     /\ raw_game_state.next_pipe_top_y - raw_game_state.player_y
            \in -512 .. 512
     /\ raw_game_state.next_pipe_bottom_y - raw_game_state.player_y
            \in -512 .. 512) =>
        /\ 0 <= parsed_state[1] /\ parsed_state[1] < 35
        /\ 0 <= parsed_state[2] /\ parsed_state[2] < n_bins_top
        /\ 0 <= parsed_state[3] /\ parsed_state[3] < n_bins_bot
        /\ n_bins_dist = 35
        /\ \A k \in 1 .. 3 : parsed_state[k] \in 0 .. (Q_shape[k] - 1)
        /\ Actions = 0 .. (Q_shape[4] - 1)

\* C20 witness: the last index of every axis at once, for the bird at the
\* top of the screen, both pipe edges at the bottom and the pipe 349 away.
C20_Witness ==
    /\ raw_game_state.next_pipe_dist_to_player = 349
    /\ raw_game_state.player_y = 0
    /\ parsed_state = <<n_bins_dist - 1, n_bins_top - 1, n_bins_bot - 1>>


(***************************************************************************)
(* More properties of the training loop (Spec).                            *)
(***************************************************************************)
\* C21: from the all-zero table a tie in choose_action gives action 1 (do
\* nothing); the first action of training is 1; and in every bin s action 0
\* (flap) is selected for the first time only when Q[s][1] is strictly
\* negative, hence never before Q[s][1] has become strictly negative.
C21_FlapOnlyAfterNegative ==
    /\ [](n_updates > 0 =>
             /\ Q_before[call.state][0] = Q_before[call.state][1]
                    => chosen = 1
             /\ n_updates = 1 => chosen = 1)
    /\ [][(/\ n_updates' = n_updates + 1
           /\ chosen' = 0
           /\ <<state, 0>> \notin updated)
             => RLess(Q[state][1], Zero)]_vars

\* C21 witness: a lost game made Q[s][1] negative and the next action
\* selected in s was to flap, for the first time.
C21_Witness ==
    /\ n_updates = 2
    /\ chosen = 0
    /\ RLess(Q_before[call.state][1], Zero)
    /\ Q_before[call.state][0] = Zero
    /\ <<call.state, 1>> \in updated


\* the sum of the rewards logged for episode e
RECURSIVE episode_sum(_, _)
episode_sum(log, e) ==
    IF log = <<>> THEN Zero
    ELSE LET rest == episode_sum(Tail(log), e)
         IN  IF Head(log)[1] = e THEN RAdd(Head(log)[2], rest) ELSE rest

\* C22: Q is carried over from episode to episode: starting an episode
\* leaves Q as it is while it resets cumulative_reward to 0 and state to the
\* bin of the new game, and Q changes only by an update_Q call; after k
\* completed episodes scores and returns hold k entries each, and the k-th
\* return is the sum of the parsed rewards of episode k alone.
C22_TableCarriedOverReturnsPerEpisode ==
    /\ [](/\ Len(scores) = Len(returns)
          /\ Len(returns) = (IF pc = "loop" THEN epoch - 1 ELSE epoch)
          /\ \A e \in 1..Len(returns) :
                returns[e] = episode_sum(reward_log, e)
          /\ pc = "loop" =>
                cumulative_reward = episode_sum(reward_log, epoch))
    /\ [][/\ epoch' # epoch =>
                /\ Q' = Q
                /\ cumulative_reward' = Zero
                /\ \E g \in GameStates : state' = parse_state(g)
          /\ Q' # Q =>
                /\ n_updates' = n_updates + 1
                /\ call'.fn = "update_Q"
                /\ Q' = update_Q(Q, call'.state, call'.next_state,
                                 call'.action, call'.reward, alpha, gamma)
         ]_vars

\* C22 witness: two episodes are completed, each of them changed the table,
\* and the second return is the reward of the second episode alone.
C22_Witness ==
    /\ pc = "epoch"
    /\ epoch = 2
    /\ Len(returns) = 2
    /\ Len(scores) = 2
    /\ Q # ZeroTable
    /\ returns[1] # Zero
    /\ returns[2] = episode_sum(reward_log, 2)
    /\ returns[2] # RAdd(episode_sum(reward_log, 1),
                         episode_sum(reward_log, 2))


(***************************************************************************)
(* RandomRBFHypothesisSpace, a dataset labeled by its oracle f_star, and   *)
(* the hypotheses consistent with the dataset.                             *)
(***************************************************************************)
\* inds = RandomRBFHypothesisSpace(num_h): num_h is 1..MaxH
MaxH == 2

\* N, the number of points of the dataset, is 0..MaxPts
MaxPts == 2

\* np.random.uniform(size=(.., 2)): points of the unit square, in half
\* units
UnitSquare == {0, 1, 2} \X {0, 2}

\* self.mean[j]: the centres the random draw may give
Means == {<<0, 0>>, <<2, 1>>}

\* self.cov_inv[j] = inv(c.T @ c + 0.1 * I): symmetric positive definite
CovInvs == {<<<<1, 0>>, <<0, 1>>>>, <<<<2, -1>>, <<-1, 1>>>>}

\* the value of norm at which pdf = exp(-norm) is 0.5, in the units of norm
LogTwo == 2

\* np.sign
np_sign(z) == IF z > 0 THEN 1 ELSE IF z < 0 THEN -1 ELSE 0

\* the datasets x of at most n points
PointSets(n) == UNION {[1..m -> UnitSquare] : m \in 0..n}

\* hxj(self, x, j): one value per row of x. pdf = exp(-norm) decreases in
\* norm, so pdf - 0.5 has the sign of LogTwo - norm.
hxj(x, j) ==
    [r \in 1..Len(x) |->
        LET d == <<x[r][1] - mean[j + 1][1], x[r][2] - mean[j + 1][2]>>
            M == cov_inv[j + 1]
            dM == <<d[1] * M[1][1] + d[2] * M[2][1],
                    d[1] * M[1][2] + d[2] * M[2][2]>>
            norm == dM[1] * d[1] + dM[2] * d[2]
        IN  Rat(np_sign(LogTwo - norm) + 1, 2)]

\* a slip: the oracle is always hypothesis 0
f_star_first(x) == hxj(x, 0)

\* f_star(self, x)
f_star(x) == hxj(x, j_star)

\* h(self, j): lambda x: self.hxj(x, j)
h(j) == [x \in Seq(UnitSquare) |-> hxj(x, j)]

\* consistency_check(h, x, y)
consistency_check(hh, x, y) ==
    LET y_pred == hh[x]
    IN  \A r \in 1..Len(y) : y_pred[r] = y[r]

\* np.arange(n)[mask]: the indexes whose entry of the mask is True
boolean_mask(n, mask) ==
    SelectSeq([m \in 1..n |-> m - 1], LAMBDA j : mask[j + 1])

InitRBF ==
    /\ IdleCoin
    /\ IdleQ
    /\ IdlePI
    /\ IdleHeap
    /\ IdleRec
    /\ IdleTrials
    /\ IdleParse
    /\ IdleRBF
    /\ pc = "construct"

\* inds = RandomRBFHypothesisSpace(num_h=n): __init__ draws the means, the
\* covariances and j_star = np.random.choice(range(num_h))
RandomRBFHypothesisSpace(n) ==
    /\ pc = "construct"
    /\ num_h' = n
    /\ mean' \in [1..n -> Means]
    /\ cov_inv' \in [1..n -> CovInvs]
    /\ j_star' \in 0..(n - 1)
    /\ pc' = "dataset"
    /\ UNCHANGED <<check_results, consistent_subset, drawn_j, coinVars,
                   qVars, piVars, heapVars, recVars, trialVars, parseVars>>

\* x_train = np.random.uniform(size=(N, 2)); y_train = inds.f_star(x_train)
label_dataset(x) ==
    /\ pc = "dataset"
    /\ x_train' = x
    /\ y_train' = f_star(x)
    /\ pc' = "check"
    /\ UNCHANGED <<p_star, p_hat, f_hat_train, rbfVars, qVars, piVars,
                   heapVars, recVars, trialVars, parseVars>>

\* check_results = [consistency_check(inds.h(j), x_train, y_train)
\*                  for j in range(inds.num_h)]
\* consistent_subset = np.arange(inds.num_h)[check_results]
check_hypotheses ==
    /\ pc = "check"
    /\ LET results == [m \in 1..num_h |->
                          consistency_check(h(m - 1), x_train, y_train)]
       IN  /\ check_results' = results
           /\ consistent_subset' = boolean_mask(num_h, results)
    /\ pc' = "draw"
    /\ UNCHANGED <<num_h, mean, cov_inv, j_star, drawn_j, coinVars, qVars,
                   piVars, heapVars, recVars, trialVars, parseVars>>

\* j = np.random.choice(consistent_subset), a ValueError when it is empty
draw_consistent ==
    /\ pc = "draw"
    /\ IF consistent_subset = <<>>
       THEN /\ pc' = "ValueError"
            /\ UNCHANGED drawn_j
       ELSE /\ pc' = "plot"
            /\ \E m \in 1..Len(consistent_subset) :
                  drawn_j' = consistent_subset[m]
    /\ UNCHANGED <<num_h, mean, cov_inv, j_star, check_results,
                   consistent_subset, coinVars, qVars, piVars, heapVars,
                   recVars, trialVars, parseVars>>

NextRBF ==
    \/ \E n \in 1..MaxH : RandomRBFHypothesisSpace(n)
    \/ \E x \in PointSets(MaxPts) : label_dataset(x)
    \/ check_hypotheses
    \/ draw_consistent

SpecRBF == InitRBF /\ [][NextRBF]_vars

\* the indexes held by consistent_subset
ConsistentSet == {consistent_subset[m] : m \in 1..Len(consistent_subset)}

\* C23: j_star is chosen at construction within 0..num_h-1 and no later
\* step (labeling by f_star, the checks through h and hxj, the draw) changes
\* it; for the dataset labeled by f_star the hypotheses that pass
\* consistency_check include j_star, so consistent_subset is not empty and
\* the draw from it does not fail.
C23_OracleIsConsistent ==
    /\ [](/\ pc # "construct" => j_star \in 0..(num_h - 1)
          /\ pc \in {"draw", "plot"} =>
                /\ check_results[j_star + 1]
                /\ j_star \in ConsistentSet
                /\ consistent_subset # <<>>
          /\ pc # "ValueError"
          /\ pc = "plot" => drawn_j \in ConsistentSet)
    /\ [][pc # "construct" => j_star' = j_star]_vars

\* C23 witness: of two hypotheses only the oracle, which is not the first
\* one, passes the check on a dataset with both labels, and it is drawn.
C23_Witness ==
    /\ pc = "plot"
    /\ num_h = 2
    /\ j_star = 1
    /\ consistent_subset = <<1>>
    /\ drawn_j = j_star
    /\ Len(x_train) = 2
    /\ y_train = <<One, Zero>>

=============================================================================
